---- MODULE Spec2Model ----
(***************************************************************************)
(* Model of Script/genetrate_db_json.py: the random tree generator         *)
(* (make_node, build_tree, flatten_tree, main).                            *)
(*                                                                         *)
(* Python objects are modelled by a heap: heap[a] is the dict at address a *)
(* (addresses are handed out in allocation order, from 1), and a list of   *)
(* dicts is a sequence of addresses, so that aliasing (the same dict held  *)
(* by nodes, all_nodes and a children list) is kept.  build_tree is        *)
(* modelled line by line; pc names the source line about to run.           *)
(*                                                                         *)
(* uuid.uuid4() is modelled as a source of pairwise distinct values: the   *)
(* k-th value drawn is the number k (0 is Python's None).  random.choice   *)
(* and random.random() < 0.7 are nondeterministic choices.                 *)
(***************************************************************************)
EXTENDS Integers, Sequences, FiniteSets

\* ---------- CONFIG (lines 8-10) ----------
MIN_NODES == 10
MAX_NODES == 1000000
DEFAULT_NODES == 10

\* ---------- bounds of the model ----------
\* build_tree is called directly with total_nodes in 0..MaxTotal (Spec)
MaxTotal == 6
\* main (SpecMain) builds only when the effective count is at most this
MainMaxBuild == 10
\* in SpecMain random.choice is free in the first MainFreeSteps iterations
\* and picks the newest eligible node afterwards
MainFreeSteps == 4
\* command-line strings of SpecArgs: all strings over ArgChars up to this length
MaxArgLen == 3

\* Python's None, for an id or a parentId
None == 0

VARIABLES
    argv,        \* sys.argv: a sequence of strings (sequences of characters)
    n,           \* main's local n (-1: not yet bound)
    entry,       \* who called build_tree: "main" or "build_tree" (a direct call)
    pc,          \* the line about to run
    total_nodes, \* build_tree's parameter
    heap,        \* the node dicts, by address
    root,        \* build_tree's local root (an address; 0: not yet bound)
    nodes,       \* build_tree's local nodes: eligible parents
    all_nodes,   \* build_tree's local all_nodes
    parent,      \* build_tree's local parent (0: not yet bound)
    child,       \* build_tree's local child (0: not yet bound)
    uuids,       \* how many uuid4() values were drawn so far
    iterations,  \* history: completed executions of the loop body
    data,        \* main's local data / build_tree's return value
    file,        \* the content json.dump wrote (a token sequence)
    reported     \* the count printed in the confirmation line (-1: none)

vars == <<argv, n, entry, pc, total_nodes, heap, root, nodes, all_nodes,
          parent, child, uuids, iterations, data, file, reported>>

buildVars == <<total_nodes, heap, root, nodes, all_nodes, parent, child,
               uuids, iterations>>
mainVars == <<argv, n, file, reported>>

Range(s) == {s[i] : i \in 1..Len(s)}

\* ------------------------------------------------------------------
\* make_node (lines 14-23)
\* ------------------------------------------------------------------
NoValue == [label |-> "", suffix |-> 0]
RootValue == [label |-> "Root", suffix |-> 0]

\* the k-th value uuid.uuid4() returns
Uuid(k) == k

\* f"Node {uuid.uuid4().hex[:8]}" for the uuid u
NodeLabel(u) == [label |-> "Node", suffix |-> u]

\* variant of make_node that drops its parent_id argument
make_node_no_parent(node_id, parent_id, value, drawn) ==
    [type      |-> "node",
     id        |-> IF node_id = None THEN Uuid(drawn + 1) ELSE node_id,
     parentId  |-> None,
     value     |-> IF value = NoValue
                   THEN NodeLabel(Uuid(drawn + (IF node_id = None THEN 1 ELSE 0) + 1))
                   ELSE value,
     isDeleted |-> FALSE,
     children  |-> << >>]

\* make_node(node_id, parent_id, value) when `drawn` uuids were drawn before:
\* `node_id or uuid4()` is evaluated first, `value or f"Node ..."` second.
make_node(node_id, parent_id, value, drawn) ==
    LET idDrawn == IF node_id = None THEN 1 ELSE 0
    IN  [type      |-> "node",
         id        |-> IF node_id = None THEN Uuid(drawn + 1) ELSE node_id,
         parentId  |-> parent_id,
         value     |-> IF value = NoValue
                       THEN NodeLabel(Uuid(drawn + idDrawn + 1))
                       ELSE value,
         isDeleted |-> FALSE,
         children  |-> << >>]

\* how many uuids that call draws
make_node_draws(node_id, value) ==
    (IF node_id = None THEN 1 ELSE 0) + (IF value = NoValue THEN 1 ELSE 0)

\* ------------------------------------------------------------------
\* build_tree (lines 25-42)
\* ------------------------------------------------------------------
\* lines 27-29: root = make_node(value="Root"); nodes = [root]; all_nodes = [root]
BuildTreeEntry(N) ==
    /\ total_nodes' = N
    /\ heap' = <<make_node(None, None, RootValue, uuids)>>
    /\ uuids' = uuids + make_node_draws(None, RootValue)
    /\ root' = 1
    /\ nodes' = <<1>>
    /\ all_nodes' = <<1>>
    /\ parent' = 0
    /\ child' = 0
    /\ iterations' = 0

\* variant of the loop condition: <= for <
LoopConditionInclusive == Len(all_nodes) <= total_nodes

\* line 32: while len(all_nodes) < total_nodes
LoopCondition == Len(all_nodes) < total_nodes

L32 ==
    /\ pc = "L32"
    /\ pc' = IF LoopCondition THEN "L33" ELSE "L42"
    /\ UNCHANGED <<buildVars, mainVars, entry, data>>

\* variant of the pool: every node, eligible or not
ChoicePoolAll == all_nodes

\* the list random.choice draws from (line 33)
ChoicePool == nodes

\* line 33: parent = random.choice(nodes), the i-th element being drawn
ChooseParent(i) ==
    /\ pc = "L33"
    /\ i \in 1..Len(ChoicePool)
    /\ parent' = ChoicePool[i]
    /\ pc' = "L34"
    /\ UNCHANGED <<total_nodes, heap, root, nodes, all_nodes, child, uuids,
                   iterations, mainVars, entry, data>>

L33 == \E i \in 1..Len(ChoicePool) : ChooseParent(i)

\* the indexes SpecMain explores: all of them in the first MainFreeSteps
\* iterations, the last one (the newest eligible node) afterwards
MainChoices ==
    {i \in 1..Len(ChoicePool) :
        iterations < MainFreeSteps \/ i = Len(ChoicePool)}

L33Main == \E i \in MainChoices : ChooseParent(i)

\* variant of the parent_id argument: always the root's id
ChildParentIdOfRoot == heap[root].id

\* the parent_id argument of line 34
ChildParentId == heap[parent].id

\* line 34: child = make_node(parent_id=parent["id"])
L34 ==
    /\ pc = "L34"
    /\ heap' = Append(heap, make_node(None, ChildParentId, NoValue, uuids))
    /\ uuids' = uuids + make_node_draws(None, NoValue)
    /\ child' = Len(heap) + 1
    /\ pc' = "L35"
    /\ UNCHANGED <<total_nodes, root, nodes, all_nodes, parent, iterations,
                   mainVars, entry, data>>

\* variants of the append: assignment of a fresh list, a double append,
\* an insertion at the front
AppendChildOverwrite(h, p, c) == [h EXCEPT ![p].children = <<c>>]
AppendChildTwice(h, p, c) == [h EXCEPT ![p].children = Append(Append(@, c), c)]
AppendChildFront(h, p, c) == [h EXCEPT ![p].children = <<c>> \o @]

\* parent["children"].append(child) on heap h
AppendChild(h, p, c) == [h EXCEPT ![p].children = Append(@, c)]

\* line 35
L35 ==
    /\ pc = "L35"
    /\ heap' = AppendChild(heap, parent, child)
    /\ pc' = "L36"
    /\ UNCHANGED <<total_nodes, root, nodes, all_nodes, parent, child, uuids,
                   iterations, mainVars, entry, data>>

\* line 36: all_nodes.append(child)
Register(all, c) == Append(all, c)

L36 ==
    /\ pc = "L36"
    /\ all_nodes' = Register(all_nodes, child)
    /\ pc' = "L39"
    /\ UNCHANGED <<total_nodes, heap, root, nodes, parent, child, uuids,
                   iterations, mainVars, entry, data>>

\* variant of the promotion: nodes = [child] for nodes.append(child)
PromoteReplace(elig, c, below) == IF below THEN <<c>> ELSE elig

\* lines 39-40: if random.random() < 0.7: nodes.append(child)
Promote(elig, c, below) == IF below THEN Append(elig, c) ELSE elig

L39 ==
    /\ pc = "L39"
    /\ \E below \in BOOLEAN : nodes' = Promote(nodes, child, below)
    /\ iterations' = iterations + 1
    /\ pc' = "L32"
    /\ UNCHANGED <<total_nodes, heap, root, all_nodes, parent, child, uuids,
                   mainVars, entry, data>>

\* line 42: return [root]
ReturnValue == <<root>>

L42 ==
    /\ pc = "L42"
    /\ data' = ReturnValue
    /\ pc' = IF entry = "main" THEN "L52" ELSE "done"
    /\ UNCHANGED <<buildVars, mainVars, entry>>


\* ------------------------------------------------------------------
\* flatten_tree (lines 59-67)
\* ------------------------------------------------------------------
RECURSIVE recurse(_, _)
\* recurse(nodes) on heap h: the nodes it appends to result, in order
recurse(h, addrs) ==
    IF addrs = << >> THEN << >>
    ELSE <<Head(addrs)>> \o recurse(h, h[Head(addrs)].children)
                         \o recurse(h, Tail(addrs))

\* variant of flatten_tree without the recursion into children
flatten_tree_shallow(h, d) == d

flatten_tree(h, d) == recurse(h, d)

\* ------------------------------------------------------------------
\* json.dump(data, f, indent=2) (line 55): the file as a token sequence,
\* an object's scalar members carried by its opening token
\* ------------------------------------------------------------------
NoMembers == [type |-> "", id |-> None, parentId |-> None, value |-> NoValue,
              isDeleted |-> FALSE]
Members(node) == [type |-> node.type, id |-> node.id,
                  parentId |-> node.parentId, value |-> node.value,
                  isDeleted |-> node.isDeleted]
Token(kind, members) == [kind |-> kind, members |-> members]

RECURSIVE json_dump_items(_, _)
RECURSIVE json_dump(_, _)
\* a list of node dicts: "[" item ... "]"
json_dump(h, addrs) ==
    <<Token("[", NoMembers)>> \o json_dump_items(h, addrs)
                              \o <<Token("]", NoMembers)>>
\* each dict: "{" scalar members, "children": [...] "}"
json_dump_items(h, addrs) ==
    IF addrs = << >> THEN << >>
    ELSE <<Token("{", Members(h[Head(addrs)]))>>
         \o json_dump(h, h[Head(addrs)].children)
         \o <<Token("}", NoMembers)>>
         \o json_dump_items(h, Tail(addrs))

\* ------------------------------------------------------------------
\* int(sys.argv[1]) (line 46): Python's int() of a str, base 10
\* ------------------------------------------------------------------
Digits == <<"0", "1", "2", "3", "4", "5", "6", "7", "8", "9">>
IsDigit(c) == c \in Range(Digits)
DigitValue(c) == (CHOOSE i \in 1..Len(Digits) : Digits[i] = c) - 1
IsSpace(c) == c \in {" "}

RECURSIVE LStrip(_)
LStrip(s) == IF s # << >> /\ IsSpace(Head(s)) THEN LStrip(Tail(s)) ELSE s
RECURSIVE RStrip(_)
RStrip(s) == IF s # << >> /\ IsSpace(s[Len(s)])
             THEN RStrip(SubSeq(s, 1, Len(s) - 1)) ELSE s

\* digits, single underscores allowed between two digits only
ValidDigits(b) ==
    /\ b # << >>
    /\ IsDigit(b[1])
    /\ IsDigit(b[Len(b)])
    /\ \A i \in 1..Len(b) : IsDigit(b[i]) \/ b[i] = "_"
    /\ \A i \in 1..(Len(b) - 1) : ~(b[i] = "_" /\ b[i + 1] = "_")

RECURSIVE DigitsValue(_, _)
DigitsValue(b, acc) ==
    IF b = << >> THEN acc
    ELSE IF Head(b) = "_" THEN DigitsValue(Tail(b), acc)
    ELSE DigitsValue(Tail(b), 10 * acc + DigitValue(Head(b)))

\* the exception raised by int() on a malformed literal
IntError == "ValueError"

\* int(s): [exc |-> "" and the value] or [exc |-> the exception raised]
PyInt(s) ==
    LET t == RStrip(LStrip(s))
        signed == t # << >> /\ t[1] \in {"+", "-"}
        body == IF signed THEN Tail(t) ELSE t
        mag == DigitsValue(body, 0)
    IN  IF ValidDigits(body)
        THEN [exc |-> "", val |-> IF signed /\ t[1] = "-" THEN 0 - mag ELSE mag]
        ELSE [exc |-> IntError, val |-> 0]

\* ------------------------------------------------------------------
\* main (lines 44-57)
\* ------------------------------------------------------------------
Min(a, b) == IF a <= b THEN a ELSE b
Max(a, b) == IF a >= b THEN a ELSE b

\* variant of the clamp with min and max exchanged
ClampSwapped(x) == Min(MIN_NODES, Max(x, MAX_NODES))

\* line 47: max(MIN_NODES, min(n, MAX_NODES))
Clamp(x) == Max(MIN_NODES, Min(x, MAX_NODES))

\* line 46: int(sys.argv[1]) if len(sys.argv) > 1 else DEFAULT_NODES
ArgValue(av) == IF Len(av) > 1 THEN PyInt(av[2])
                ELSE [exc |-> "", val |-> DEFAULT_NODES]

\* the exceptions the try statement of lines 45-49 handles
Handled(exc) == exc = "ValueError"

\* lines 45-49: n, or -1 when the exception propagates out of main
EffectiveCount(av) ==
    LET r == ArgValue(av)
    IN  IF r.exc = "" THEN Clamp(r.val)
        ELSE IF Handled(r.exc) THEN DEFAULT_NODES
        ELSE -1

L45 ==
    /\ pc = "L45"
    /\ n' = EffectiveCount(argv)
    /\ pc' = IF EffectiveCount(argv) = -1 THEN "raised" ELSE "L51"
    /\ UNCHANGED <<argv, file, reported, buildVars, entry, data>>

\* line 51: data = build_tree(n), up to the loop
L51 ==
    /\ pc = "L51"
    /\ n <= MainMaxBuild
    /\ BuildTreeEntry(n)
    /\ pc' = "L32"
    /\ UNCHANGED <<mainVars, entry, data>>

\* lines 52-55: the file is opened and json.dump writes data
L52 ==
    /\ pc = "L52"
    /\ file' = json_dump(heap, data)
    /\ pc' = "L57"
    /\ UNCHANGED <<argv, n, reported, buildVars, entry, data>>

\* line 57: the count in the confirmation line
ReportedCount == Len(flatten_tree(heap, data))

L57 ==
    /\ pc = "L57"
    /\ reported' = ReportedCount
    /\ pc' = "exit"
    /\ UNCHANGED <<argv, n, file, buildVars, entry, data>>

\* the program's name, sys.argv[0]
Prog == <<"g">>

ArgChars == {"0", "1", "9", "-", "+", "_", " ", "a"}
ShortStrings == UNION {[1..k -> ArgChars] : k \in 0..MaxArgLen}
Examples == {<<"a", "b", "c">>, <<"5">>, <<"1", "0">>, <<"1", "1">>,
             <<"2", "0", "0", "0", "0", "0", "0">>,
             <<"1", "0", "0", "0", "0", "0", "0">>,
             <<"1", "0", "0", "0", "0", "0", "1">>,
             <<"9", "9", "9", "9", "9", "9">>,
             <<"-", "2", "0", "0", "0", "0", "0", "0">>,
             <<"1", "_", "0", "0", "0", "_", "0", "0", "0">>,
             <<" ", "1", "2", " ", " ">>,
             <<"1", ".", "5">>, <<"1", "e", "3">>}
ArgStrings == ShortStrings \cup Examples

\* command lines: no argument, one argument, one argument and a second
AllArgv == {<<Prog>>} \cup {<<Prog, s>> : s \in ArgStrings}
           \cup {<<Prog, s, <<"9">> >> : s \in Examples}

MainArgv == {<<Prog>>, <<Prog, <<"5">> >>, <<Prog, <<"1", "1">> >>,
             <<Prog, <<"2", "0", "0", "0", "0", "0", "0">> >>}

\* the process starts main with the command line av
Start(avs) ==
    /\ entry = "main"
    /\ argv \in avs
    /\ n = -1
    /\ file = << >>
    /\ reported = -1
    /\ data = << >>
    /\ uuids = 0
    /\ total_nodes = -1
    /\ heap = << >>
    /\ root = 0
    /\ nodes = << >>
    /\ all_nodes = << >>
    /\ parent = 0
    /\ child = 0
    /\ iterations = 0
    /\ pc = "L45"

\* lines 45-49 alone, over every command line
InitArgs == Start(AllArgv)
NextArgs == L45
SpecArgs == InitArgs /\ [][NextArgs]_vars

\* the whole of main
InitMain == Start(MainArgv)
NextMain == L45 \/ L51 \/ L32 \/ L33Main \/ L34 \/ L35 \/ L36 \/ L39 \/ L42
            \/ L52 \/ L57
SpecMain == InitMain /\ [][NextMain]_vars

\* ------------------------------------------------------------------
\* a direct call build_tree(N)
\* ------------------------------------------------------------------
Init ==
    /\ entry = "build_tree"
    /\ argv = << >>
    /\ n = -1
    /\ file = << >>
    /\ reported = -1
    /\ data = << >>
    /\ uuids = make_node_draws(None, RootValue)
    /\ \E N \in 0..MaxTotal :
          /\ total_nodes = N
          /\ heap = <<make_node(None, None, RootValue, 0)>>
    /\ root = 1
    /\ nodes = <<1>>
    /\ all_nodes = <<1>>
    /\ parent = 0
    /\ child = 0
    /\ iterations = 0
    /\ pc = "L32"

Next == L32 \/ L33 \/ L34 \/ L35 \/ L36 \/ L39 \/ L42

Spec == Init /\ [][Next]_vars

\* a sequential program takes its next step whenever it has one
SpecFair == Spec /\ WF_vars(Next)

\* ------------------------------------------------------------------
\* vocabulary of the properties
\* ------------------------------------------------------------------
Addrs == 1..Len(heap)
ChildrenOf(a) == Range(heap[a].children)
Created == Range(all_nodes)
Eligible == Range(nodes)

\* how many times c is listed in a children sequence, over all nodes
Occurrences(c) ==
    Cardinality({pi \in Addrs \X Addrs :
                    /\ pi[2] <= Len(heap[pi[1]].children)
                    /\ heap[pi[1]].children[pi[2]] = c})

\* the nodes reachable from the set S through children links
RECURSIVE ReachFrom(_)
ReachFrom(S) ==
    LET T == S \cup UNION {ChildrenOf(a) : a \in S}
    IN  IF T = S THEN S ELSE ReachFrom(T)

\* the nodes whose id is i
ById(i) == {b \in Addrs : heap[b].id = i}

\* following parentId links from a ends at the root, no node seen twice
RECURSIVE ChainToRoot(_, _)
ChainToRoot(a, seen) ==
    IF heap[a].parentId = None THEN a = root
    ELSE /\ Cardinality(ById(heap[a].parentId)) = 1
         /\ LET b == CHOOSE x \in ById(heap[a].parentId) : TRUE
            IN  b \notin seen /\ ChainToRoot(b, seen \cup {b})

\* build_tree has returned
Returned == pc \in {"done", "L52", "L57", "exit"}

NoDuplicates(s) == Cardinality(Range(s)) = Len(s)

\* the loop's progress, line by line
LoopProgress ==
    /\ pc = "L33" => nodes # << >>
    /\ pc \in {"L32", "L33", "L42", "done"} => Len(all_nodes) = iterations + 1
    /\ pc \in {"L42", "done"} /\ total_nodes >= 1 => iterations = total_nodes - 1
\* C8: the build loop runs to completion: an iteration always has an
\* eligible parent to pick, adds exactly one node to all_nodes, and for
\* N >= 1 the loop stops after exactly N-1 iterations.
C8_RunsToCompletion ==
    /\ []LoopProgress
    /\ <>(pc = "done")
C8_Witness ==
    pc = "done" /\ total_nodes >= 3 /\ iterations = total_nodes - 1

\* C1: build_tree(N) returns a one-element sequence holding the root, and
\* for N >= 1 (so for every N in [MIN_NODES, MAX_NODES]) exactly N nodes
\* are reachable from that root through children links, the root included.
C1_ExactlyNReachable ==
    Returned =>
        /\ Len(data) = 1
        /\ data[1] = root
        /\ total_nodes >= 1 => Cardinality(ReachFrom({data[1]})) = total_nodes
C1_Witness ==
    /\ Returned
    /\ total_nodes >= MIN_NODES
    /\ Cardinality(ReachFrom({data[1]})) = total_nodes
    /\ \E a \in Addrs : a # root /\ Len(heap[a].children) >= 2

\* C2: the effective count of main is DEFAULT_NODES when the argument is
\* missing or int() rejects it, and otherwise the parsed integer clamped
\* into [MIN_NODES, MAX_NODES]; no argument makes main raise.
C2_EffectiveCount ==
    pc # "L45" =>
        /\ pc # "raised"
        /\ n >= 10 /\ n <= 1000000
        /\ Len(argv) = 1 => n = 10
        /\ Len(argv) > 1 =>
              LET r == PyInt(argv[2])
              IN  /\ r.exc # "" => n = 10
                  /\ r.exc = "" /\ r.val < 10 => n = 10
                  /\ r.exc = "" /\ r.val > 1000000 => n = 1000000
                  /\ r.exc = "" /\ r.val >= 10 /\ r.val <= 1000000 => n = r.val
        /\ Len(argv) > 1 /\ argv[2] = <<"a", "b", "c">> => n = 10
        /\ Len(argv) > 1 /\ argv[2] = <<"5">> => n = 10
        /\ Len(argv) > 1 /\ argv[2] = <<"2", "0", "0", "0", "0", "0", "0">>
              => n = 1000000
        /\ Len(argv) > 1 /\ argv[2] = <<"9", "9", "9", "9", "9", "9">>
              => n = 999999
C2_Witness ==
    /\ pc = "L51"
    /\ Len(argv) > 1
    /\ argv[2] = <<"2", "0", "0", "0", "0", "0", "0">>
    /\ n = MAX_NODES

\* C3: at every line of the build and in the final tree, a node listed in
\* a children sequence carries the id of the node holding that sequence as
\* its parentId, and following parentId links from any node reaches the
\* root without visiting a node twice.
C3_ParentLinks ==
    /\ \A p \in Addrs : \A c \in ChildrenOf(p) : heap[c].parentId = heap[p].id
    /\ \A a \in Addrs : ChainToRoot(a, {a})
C3_Witness ==
    /\ pc = "done"
    /\ \E p \in Addrs : \E c \in ChildrenOf(p) :
          /\ p # root
          /\ heap[c].parentId = heap[p].id
          /\ heap[c].children # << >>

\* C4: at every line of the build, each node of all_nodes other than the
\* root is listed in the children sequence of exactly one node, exactly
\* once, and the root is listed in none; no node at all is listed twice.
C4_SingleOwner ==
    /\ \A c \in Created : c # root => Occurrences(c) = 1
    /\ \A c \in Addrs : Occurrences(c) <= 1
    /\ root # 0 => Occurrences(root) = 0
C4_Witness ==
    /\ pc = "done"
    /\ Len(all_nodes) >= 4
    /\ \E p \in Addrs : p # root /\ Len(heap[p].children) >= 2

\* the ids of the objects of a written file, in file order
FileObjects(f) == SelectSeq(f, LAMBDA t : t.kind = "{")
FileIds(f) == [i \in 1..Len(FileObjects(f)) |-> FileObjects(f)[i].members.id]

\* C5: the count of the confirmation line is the number of objects of the
\* written file, flatten_tree lists every node reachable from the root
\* exactly once (in the order of the file), and the count is the
\* effective count n.
C5_ReportedCount ==
    pc = "exit" =>
        LET flat == flatten_tree(heap, data)
        IN  /\ reported = Len(FileObjects(file))
            /\ reported = Len(flat)
            /\ NoDuplicates(flat)
            /\ Range(flat) = ReachFrom(Range(data))
            /\ FileIds(file) = [i \in 1..Len(flat) |-> heap[flat[i]].id]
            /\ reported = n
C5_Witness ==
    /\ pc = "exit"
    /\ argv = <<Prog, <<"5">> >>
    /\ reported = MIN_NODES
    /\ Len(FileObjects(file)) = MIN_NODES
    /\ \E a \in Addrs : a # root /\ Len(heap[a].children) >= 2

\* C6: at every line of the build and in the final tree exactly one node
\* has parentId None: the root that build_tree returns, whose value is
\* "Root"; every other node has a parentId.
C6_SingleRoot ==
    /\ {a \in Addrs : heap[a].parentId = None} = {root}
    /\ heap[root].value.label = "Root"
    /\ \A a \in Addrs : a # root => heap[a].value.label # "Root"
    /\ Returned => data = <<root>>
C6_Witness ==
    /\ pc = "done"
    /\ Len(heap) >= 3
    /\ \A a \in Addrs \ {root} : heap[a].parentId # None

\* C7 as stated: nodes is a strict subset of all_nodes and holds the root.
C7_StrictSubset ==
    /\ Eligible \subseteq Created
    /\ Eligible # Created
    /\ root \in Eligible

\* C7, amended: nodes is a subset of all_nodes, which may be all of it
\* (it is at the start, and as long as every child was promoted), and it
\* always holds the root.
C7_Subset ==
    /\ Eligible \subseteq Created
    /\ root \in Eligible
C7_Witness ==
    /\ pc = "done"
    /\ Len(all_nodes) >= 3
    /\ Eligible = Created

\* a is registered, not eligible, and past its promotion draw
PassedOver(a) ==
    a \in Created /\ a \notin Eligible /\ ~(pc = "L39" /\ a = child)
C9_LeafInv == \A a \in Addrs : heap[a].children # << >> => a \in Eligible
C9_StaysLeaf ==
    \A a \in Addrs :
        PassedOver(a) =>
            /\ a \notin Range(nodes')
            /\ heap'[a].children = << >>
\* C9: a node that was not promoted when it was created stays out of the
\* eligible collection and keeps an empty children sequence ever after;
\* so every node with a child is in the eligible collection.
C9_NonPromotedAreLeaves == []C9_LeafInv /\ [][C9_StaysLeaf]_vars
C9_Witness ==
    /\ pc = "done"
    /\ \E a \in Created : \E b \in Created :
          a < b /\ a \notin Eligible /\ heap[a].children = << >>

\* children sequences list addresses in allocation order
CreationOrder ==
    \A a \in Addrs : \A i \in 1..Len(heap[a].children) :
        \A j \in 1..Len(heap[a].children) :
            i < j => heap[a].children[i] < heap[a].children[j]
C10_Step ==
    /\ Len(heap') >= Len(heap)
    /\ Len(all_nodes') >= Len(all_nodes)
    /\ SubSeq(all_nodes', 1, Len(all_nodes)) = all_nodes
    /\ \A a \in Addrs :
          /\ Members(heap'[a]) = Members(heap[a])
          /\ \/ heap'[a].children = heap[a].children
             \/ /\ pc = "L35"
                /\ a = parent
                /\ child = Len(heap)
                /\ heap'[a].children = Append(heap[a].children, child)
\* C10: a step changes the existing tree only by appending the newly
\* created node at the end of the chosen parent's children: the scalar
\* members of every existing node, every other children sequence and the
\* prefix of the parent's are unchanged, no node is removed, and each
\* children sequence is in creation order.
C10_AppendOnly == []CreationOrder /\ [][C10_Step]_vars
C10_Witness ==
    /\ pc = "L36"
    /\ Len(heap[parent].children) >= 2
    /\ heap[parent].children[Len(heap[parent].children)] = child

====
